---- MODULE Spec2Model ----
(***************************************************************************)
(* Model of the krishi-mitra advisory backend: the three HTTP endpoints    *)
(* /text-advisory, /image-advisory (app/api/routes/advisory.py) and        *)
(* /detect-disease (app/api/routes/dd.py) and the LLMService methods they  *)
(* call (app/services/llm_service.py).                                     *)
(*                                                                         *)
(* Requests run as coroutines of one event loop: a request's code between  *)
(* two awaits that suspend (await file.read(1024), await llm.ainvoke(..))  *)
(* is one atomic action.  Strings are sequences of tokens or characters,   *)
(* files are sequences of bytes.  Requests are well-formed and pass the    *)
(* CurrentUser dependency, whose code is outside the modelled files.       *)
(***************************************************************************)
EXTENDS Integers, Sequences, FiniteSets, TLC

\* ---------------------------------------------------------------- bounds
NumRequests == 2
MaxUploadLen == 2
\* bytes returned by one file.read(1024), scaled down to the upload sizes
ReadSize == 1
\* capacity of the buffer of open(file_path, "wb"), scaled down likewise
BufferSize == 1

Requests == 1..NumRequests

\* ---------------------------------------------------------------- inputs
TextEndpoint == "/text-advisory"
ImageAdvisoryEndpoint == "/image-advisory"
DetectDiseaseEndpoint == "/detect-disease"
ImageEndpoints == {ImageAdvisoryEndpoint, DetectDiseaseEndpoint}

\* file.filename as the clients send it: uploads to one endpoint share their
\* name, uploads to different endpoints land in different directories
FileNames == {"leaf.png"}
Queries == {<< >>, <<"p", "H">>}
ImageQueries == {<<"p", "H">>}
Languages == {<<"Hindi">>}

\* the images request r may upload: the two longest sizes, bytes distinct per
\* request
Uploads(r) ==
    {[i \in 1..n |-> (64 * r + i) % 256] : n \in (MaxUploadLen - 1)..MaxUploadLen}

\* what the awaited llm.ainvoke can do: answer with text, answer with content
\* that is not a string (a list of content blocks), or raise
ModelTexts == {<<" ", "o", "k", "\n">>}
ModelErrors == {<<"429 Resource exhausted">>}
ModelOutcomes ==
    {[kind |-> "text", value |-> t] : t \in ModelTexts}
      \cup {[kind |-> "malformed", value |-> << >>]}
      \cup {[kind |-> "raise", value |-> m] : m \in ModelErrors}

IOErrors == {<<"[Errno 5] Input/output error">>}

NoReq == [endpoint |-> "none", filename |-> "none", upload |-> << >>,
          user_query |-> << >>, lang |-> << >>]
NoResp == [status |-> 0, detail |-> << >>, body |-> << >>]
NoReply == [kind |-> "none", value |-> << >>]
NoCall == [state |-> "none"]
ClosedHandle == [open |-> FALSE, linked |-> FALSE, pos |-> 0, buf |-> << >>]

\* ---------------------------------------------------------------- strings
Whitespace == {" ", "\n", "\t"}

RECURSIVE LStrip(_)
LStrip(s) == IF s = << >> THEN s
             ELSE IF Head(s) \in Whitespace THEN LStrip(Tail(s)) ELSE s

RECURSIVE RStrip(_)
RStrip(s) == IF s = << >> THEN s
             ELSE IF s[Len(s)] \in Whitespace
                  THEN RStrip(SubSeq(s, 1, Len(s) - 1)) ELSE s

\* str.strip()
Strip(s) == RStrip(LStrip(s))

Base64Alphabet ==
    <<"A", "B", "C", "D", "E", "F", "G", "H", "I", "J", "K", "L", "M", "N",
      "O", "P", "Q", "R", "S", "T", "U", "V", "W", "X", "Y", "Z", "a", "b",
      "c", "d", "e", "f", "g", "h", "i", "j", "k", "l", "m", "n", "o", "p",
      "q", "r", "s", "t", "u", "v", "w", "x", "y", "z", "0", "1", "2", "3",
      "4", "5", "6", "7", "8", "9", "+", "/">>

Sextet(n) == Base64Alphabet[n + 1]

\* base64.b64encode(image_bytes).decode("utf-8")
RECURSIVE b64encode(_)
b64encode(b) ==
    IF Len(b) = 0 THEN << >>
    ELSE IF Len(b) = 1 THEN
        <<Sextet(b[1] \div 4), Sextet((b[1] % 4) * 16), "=", "=">>
    ELSE IF Len(b) = 2 THEN
        <<Sextet(b[1] \div 4), Sextet((b[1] % 4) * 16 + b[2] \div 16),
          Sextet((b[2] % 16) * 4), "=">>
    ELSE
        <<Sextet(b[1] \div 4), Sextet((b[1] % 4) * 16 + b[2] \div 16),
          Sextet((b[2] % 16) * 4 + b[3] \div 64), Sextet(b[3] % 64)>>
          \o b64encode(SubSeq(b, 4, Len(b)))

\* f"data:image/png;base64,{encoded_image}"
ImageUrl(bytes) == <<"data:image/png;base64,">> \o b64encode(bytes)

\* self.advisory_prompt.format(query=user_query)
AdvisoryPrompt(query) ==
    <<"You are a smart crop advisory system ... Query: ">> \o query
      \o <<"\n\nAdvisory:">>

\* self.image_advisory_prompt.format(query=user_query)
ImageAdvisoryPrompt(query) ==
    <<"You are an intelligent assistant for a crop advisory app. ... Query: ">>
      \o query

\* self.disease_detection_prompt.format(language=language)
DiseaseDetectionPrompt(language) ==
    <<"You are a crop disease expert. ... Generate the entire response ONLY in ">>
      \o language \o <<". Provide the following in a structured format: ...">>

ImagePrompt(rq) ==
    IF rq.endpoint = ImageAdvisoryEndpoint
    THEN ImageAdvisoryPrompt(rq.user_query)
    ELSE DiseaseDetectionPrompt(rq.lang)

\* ---------------------------------------------------------------- files
\* temp_dir of the two image handlers
TempDir(endpoint) ==
    IF endpoint = ImageAdvisoryEndpoint THEN "temp_images" ELSE "temp_images_dd"

\* os.path.join(temp_dir, file.filename)
FilePath(rq) == <<TempDir(rq.endpoint), rq.filename>>

PathStr(path) == <<path[1], "/", path[2]>>

\* os.path.exists / Path.exists
Exists(files, path) == path \in DOMAIN files

\* os.remove of an existing file
Remove(files, path) == [p \in DOMAIN files \ {path} |-> files[p]]

\* open(path, "wb"): create the file or truncate the one that is there
OpenTruncate(files, path) ==
    [p \in DOMAIN files \cup {path} |-> IF p = path THEN << >> ELSE files[p]]

Max(a, b) == IF a >= b THEN a ELSE b

\* write data at byte offset pos; a gap left by a truncation reads as zeros
WriteAt(content, pos, data) ==
    [i \in 1..Max(Len(content), pos + Len(data)) |->
        IF i > pos /\ i <= pos + Len(data) THEN data[i - pos]
        ELSE IF i <= Len(content) THEN content[i]
        ELSE 0]

\* flush of a handle's buffer into the file its descriptor refers to; a file
\* unlinked by os.remove takes the bytes with it
Flush(files, h, path) ==
    IF h.linked /\ Exists(files, path) /\ h.buf # << >>
    THEN [files EXCEPT ![path] = WriteAt(files[path], h.pos, h.buf)]
    ELSE files

\* ---------------------------------------------------------------- errors
\* str() of an HTTPException: "<status_code>: <detail>"
StrHTTPException(status, detail) ==
    <<IF status = 500 THEN "500" ELSE "400", ": ">> \o detail

FileNotFoundMessage(path) ==
    <<"[Errno 2] No such file or directory: '">> \o PathStr(path) \o <<"'">>

ImageNotFoundMessage(path) == <<"Image not found: ">> \o PathStr(path)

StripAttributeError == <<"'list' object has no attribute 'strip'">>

KeyNotConfigured == <<"Gemini API key is not configured.">>
EmptyQuery == <<"Query string cannot be empty.">>
FailedToProcess == <<"Failed to process image: ">>

Response(status, detail, body) ==
    [status |-> status, detail |-> detail, body |-> body]

\* ---------------------------------------------------------------- service
SuccessKey(endpoint) ==
    IF endpoint = DetectDiseaseEndpoint THEN "analysis" ELSE "advisory"

Returned(payload) == [state |-> "returned", payload |-> payload]
Raised(message) == [state |-> "raised", error |-> message]

\* ServiceReturn with an except clause that misses the AttributeError of
\* .strip() on content that is not a string
ServiceReturnUncaught(endpoint, outcome) ==
    CASE outcome.kind = "text" ->
            Returned(SuccessKey(endpoint) :> Strip(outcome.value))
      [] outcome.kind = "malformed" ->
            Raised(StripAttributeError)
      [] outcome.kind = "raise" ->
            Returned("error" :> outcome.value)

\* the part of get_advisory / get_image_advisory / detect_disease that runs
\* once the awaited llm.ainvoke has finished: response.content.strip() in the
\* try, str(e) in the except
ServiceReturn(endpoint, outcome) ==
    CASE outcome.kind = "text" ->
            Returned(SuccessKey(endpoint) :> Strip(outcome.value))
      [] outcome.kind = "malformed" ->
            Returned("error" :> StripAttributeError)
      [] outcome.kind = "raise" ->
            Returned("error" :> outcome.value)

\* the part of get_image_advisory / detect_disease before the model call, when
\* the image cannot be loaded: path.exists() is false or open/read raises
ServiceLoadFailure(files, path, ioError) ==
    IF ~Exists(files, path)
    THEN Returned("error" :> ImageNotFoundMessage(path))
    ELSE Returned("error" :> ioError)

\* the message handed to llm.ainvoke: the prompt and, for images, the data URL
TextMessage(rq) == [text |-> AdvisoryPrompt(rq.user_query), image |-> << >>]
ImageMessage(rq, bytes) == [text |-> ImagePrompt(rq), image |-> ImageUrl(bytes)]

\* ---------------------------------------------------------------- handlers
\* ExceptCleanup without the removal
ExceptCleanupSkip(fs, path) == fs

\* the except branch of the image handlers: remove the file if it is there
ExceptCleanup(fs, path) ==
    IF Exists(fs, path) THEN Remove(fs, path) ELSE fs

\* CloseFile of a handler that calls the service inside the with block
CloseFileLate(fs, h, path) == [files |-> fs, handle |-> h]

\* leaving the with block: the buffer is written out and the file closed
CloseFile(fs, h, path) ==
    [files |-> Flush(fs, h, path), handle |-> ClosedHandle]

\* DependencyFails of a dependency that does not look at the key
DependencyNeverFails(configured) == FALSE

\* if not settings.GEMINI_API_KEY: raise HTTPException(500, ...)
DependencyFails(configured) == ~configured

\* get_text_advisory after the service call
TextHandlerFinish(res) ==
    IF res.state = "raised"
    THEN Response(500, <<"Internal Server Error">>, << >>)
    ELSE IF "error" \in DOMAIN res.payload
    THEN Response(500, res.payload["error"], << >>)
    ELSE Response(200, << >>, res.payload)

\* get_image_advisory / detect_crop_disease after the service call:
\* os.remove, the error check, and the except branch that catches whatever
\* the try raised, the handler's own HTTPException included
ImageHandlerFinish(files, path, res) ==
    IF res.state = "raised"
    THEN [files |-> ExceptCleanup(files, path),
          resp |-> Response(500, FailedToProcess \o res.error, << >>)]
    ELSE IF ~Exists(files, path)
    THEN [files |-> ExceptCleanup(files, path),
          resp |-> Response(500, FailedToProcess \o FileNotFoundMessage(path),
                            << >>)]
    ELSE IF "error" \in DOMAIN res.payload
    THEN [files |-> ExceptCleanup(Remove(files, path), path),
          resp |-> Response(500,
                            FailedToProcess
                              \o StrHTTPException(500, res.payload["error"]),
                            << >>)]
    ELSE [files |-> Remove(files, path),
          resp |-> Response(200, << >>, res.payload)]

\* ---------------------------------------------------------------- state
VARIABLES
    keyConfigured,  \* settings.GEMINI_API_KEY is set
    pc,             \* where each request's coroutine stands
    req,            \* the inputs of each request
    dirs,           \* directories that exist
    files,          \* path -> bytes of the files that exist
    handle,         \* each request's buffered writer on its scratch file
    consumed,       \* bytes of the upload each request has read
    calls,          \* messages each request has passed to llm.ainvoke
    result,         \* what the service call of each request produced
    reply,          \* what llm.ainvoke did for each request
    resp,           \* the HTTP response of each request
    events          \* the steps each image request has taken, in order

vars == <<keyConfigured, pc, req, dirs, files, handle, consumed, calls,
          result, reply, resp, events>>

Init ==
    /\ keyConfigured \in BOOLEAN
    /\ pc = [r \in Requests |-> "new"]
    /\ req = [r \in Requests |-> NoReq]
    /\ dirs = {}
    /\ files = << >>
    /\ handle = [r \in Requests |-> ClosedHandle]
    /\ consumed = [r \in Requests |-> 0]
    /\ calls = [r \in Requests |-> << >>]
    /\ result = [r \in Requests |-> NoCall]
    /\ reply = [r \in Requests |-> NoReply]
    /\ resp = [r \in Requests |-> NoResp]
    /\ events = [r \in Requests |-> << >>]

\* descriptors of the other requests whose file has just been unlinked
Unlinked(handles, newFiles) ==
    [s \in Requests |->
        IF handles[s].open /\ handles[s].linked
             /\ ~Exists(newFiles, FilePath(req[s]))
        THEN [handles[s] EXCEPT !.linked = FALSE]
        ELSE handles[s]]

\* a request arrives; the get_llm_service dependency is resolved before the
\* handler body runs
GetLlmService(r) ==
    /\ pc[r] = "new"
    /\ \/ \E q \in Queries :
            req' = [req EXCEPT ![r] =
                      [NoReq EXCEPT !.endpoint = TextEndpoint, !.user_query = q]]
       \/ \E f \in FileNames, u \in Uploads(r), q \in ImageQueries :
            req' = [req EXCEPT ![r] =
                      [endpoint |-> ImageAdvisoryEndpoint, filename |-> f,
                       upload |-> u, user_query |-> q, lang |-> << >>]]
       \/ \E f \in FileNames, u \in Uploads(r), l \in Languages :
            req' = [req EXCEPT ![r] =
                      [endpoint |-> DetectDiseaseEndpoint, filename |-> f,
                       upload |-> u, user_query |-> << >>, lang |-> l]]
    /\ IF DependencyFails(keyConfigured)
       THEN /\ resp' = [resp EXCEPT ![r] =
                          Response(500, KeyNotConfigured, << >>)]
            /\ pc' = [pc EXCEPT ![r] = "done"]
       ELSE /\ pc' = [pc EXCEPT ![r] = "handler"]
            /\ UNCHANGED resp
    /\ UNCHANGED <<keyConfigured, dirs, files, handle, consumed, calls,
                   result, reply, events>>

\* GetTextAdvisory without the check of line 27
GetTextAdvisoryNoCheck(r) ==
    /\ pc[r] = "handler"
    /\ req[r].endpoint = TextEndpoint
    /\ calls' = [calls EXCEPT ![r] = Append(@, TextMessage(req[r]))]
    /\ pc' = [pc EXCEPT ![r] = "invoking"]
    /\ UNCHANGED <<keyConfigured, req, dirs, files, handle, consumed, result,
                   reply, resp, events>>

\* get_text_advisory up to the awaited model call inside get_advisory
GetTextAdvisory(r) ==
    /\ pc[r] = "handler"
    /\ req[r].endpoint = TextEndpoint
    /\ IF req[r].user_query = << >>
       THEN /\ resp' = [resp EXCEPT ![r] = Response(400, EmptyQuery, << >>)]
            /\ pc' = [pc EXCEPT ![r] = "done"]
            /\ UNCHANGED calls
       ELSE /\ calls' = [calls EXCEPT ![r] = Append(@, TextMessage(req[r]))]
            /\ pc' = [pc EXCEPT ![r] = "invoking"]
            /\ UNCHANGED resp
    /\ UNCHANGED <<keyConfigured, req, dirs, files, handle, consumed, result,
                   reply, events>>

\* an image handler up to its first await file.read(1024): makedirs and open
OpenUpload(r) ==
    /\ pc[r] = "handler"
    /\ req[r].endpoint \in ImageEndpoints
    /\ dirs' = dirs \cup {TempDir(req[r].endpoint)}
    /\ files' = OpenTruncate(files, FilePath(req[r]))
    /\ handle' = [handle EXCEPT ![r] =
                    [open |-> TRUE, linked |-> TRUE, pos |-> 0, buf |-> << >>]]
    /\ pc' = [pc EXCEPT ![r] = "writing"]
    /\ UNCHANGED <<keyConfigured, req, consumed, calls, result, reply, resp,
                   events>>

\* buffer.write(content) on a buffered writer: content that fits is kept in
\* the buffer; otherwise the buffer is written out first, and content larger
\* than the buffer goes straight to the file
BufferedWrite(fs, h, path, content) ==
    IF Len(h.buf) + Len(content) <= BufferSize
    THEN [files |-> fs, handle |-> [h EXCEPT !.buf = @ \o content]]
    ELSE LET flushed == Flush(fs, h, path)
             h1 == [h EXCEPT !.pos = @ + Len(h.buf), !.buf = << >>]
         IN  IF Len(content) > BufferSize
             THEN [files |-> Flush(flushed, [h1 EXCEPT !.buf = content], path),
                   handle |-> [h1 EXCEPT !.pos = @ + Len(content)]]
             ELSE [files |-> flushed, handle |-> [h1 EXCEPT !.buf = content]]

\* one turn of the copy loop: file.read(1024) returned bytes and buffer.write
\* takes them
WriteChunk(r) ==
    /\ pc[r] = "writing"
    /\ consumed[r] < Len(req[r].upload)
    /\ LET n == IF consumed[r] + ReadSize <= Len(req[r].upload)
                THEN ReadSize ELSE Len(req[r].upload) - consumed[r]
           content == SubSeq(req[r].upload, consumed[r] + 1, consumed[r] + n)
           w == BufferedWrite(files, handle[r], FilePath(req[r]), content)
       IN  /\ consumed' = [consumed EXCEPT ![r] = @ + n]
           /\ files' = w.files
           /\ handle' = [handle EXCEPT ![r] = w.handle]
    /\ UNCHANGED <<keyConfigured, pc, req, dirs, calls, result, reply, resp,
                   events>>

\* file.read or buffer.write raises inside the copy loop: the with block
\* closes the file and the except branch cleans up and answers 500
UploadFails(r) ==
    /\ pc[r] = "writing"
    /\ \E e \in IOErrors :
         LET path == FilePath(req[r])
             closed == CloseFile(files, handle[r], path)
             existed == Exists(closed.files, path)
             after == ExceptCleanup(closed.files, path)
         IN  /\ files' = after
             /\ handle' = [Unlinked(handle, after) EXCEPT ![r] = closed.handle]
             /\ resp' = [resp EXCEPT ![r] =
                           Response(500, FailedToProcess \o e, << >>)]
             /\ events' = [events EXCEPT ![r] =
                             IF existed /\ ~Exists(after, path)
                             THEN Append(@, "deleted") ELSE @]
    /\ pc' = [pc EXCEPT ![r] = "done"]
    /\ UNCHANGED <<keyConfigured, req, dirs, consumed, calls, result, reply>>

\* the events of the handler's tail: the service returned, the file went
TailEvents(before, after, path, res) ==
    (IF res.state = "returned" THEN <<"returned">> ELSE << >>)
      \o (IF Exists(before, path) /\ ~Exists(after, path)
          THEN <<"deleted">> ELSE << >>)

\* file.read returned b"": the with block closes the file, the service is
\* called and runs up to its awaited llm.ainvoke, or fails to load the image
\* and returns at once, and then the handler finishes without suspending
FinishUpload(r) ==
    /\ pc[r] = "writing"
    /\ consumed[r] = Len(req[r].upload)
    /\ LET path == FilePath(req[r])
           cf == CloseFile(files, handle[r], path)
           closed == cf.files
       IN  \/ /\ Exists(closed, path)
              /\ files' = closed
              /\ handle' = [handle EXCEPT ![r] = cf.handle]
              /\ calls' = [calls EXCEPT ![r] =
                             Append(@, ImageMessage(req[r], closed[path]))]
              /\ events' = [events EXCEPT ![r] =
                              @ \o <<"written", "encoded", "prompt", "invoked">>]
              /\ pc' = [pc EXCEPT ![r] = "invoking"]
              /\ UNCHANGED <<result, resp>>
           \/ \E e \in IOErrors :
                LET res == ServiceLoadFailure(closed, path, e)
                    fin == ImageHandlerFinish(closed, path, res)
                IN  /\ files' = fin.files
                    /\ handle' = [Unlinked(handle, fin.files)
                                    EXCEPT ![r] = cf.handle]
                    /\ result' = [result EXCEPT ![r] = res]
                    /\ resp' = [resp EXCEPT ![r] = fin.resp]
                    /\ events' = [events EXCEPT ![r] =
                                    @ \o <<"written">>
                                      \o TailEvents(closed, fin.files, path, res)]
                    /\ pc' = [pc EXCEPT ![r] = "done"]
                    /\ UNCHANGED calls
    /\ UNCHANGED <<keyConfigured, req, dirs, consumed, reply>>

\* ModelResponds of a service that calls the model a second time before it
\* gives up
ModelRespondsRetry(r) ==
    /\ pc[r] = "invoking"
    /\ IF Len(calls[r]) = 1
       THEN /\ calls' = [calls EXCEPT ![r] = Append(@, calls[r][1])]
            /\ UNCHANGED <<pc, reply, result, resp>>
       ELSE /\ \E m \in ModelErrors :
                 /\ reply' = [reply EXCEPT ![r] = [kind |-> "raise", value |-> m]]
                 /\ result' = [result EXCEPT ![r] = Returned("error" :> m)]
                 /\ resp' = [resp EXCEPT ![r] = Response(500, m, << >>)]
            /\ pc' = [pc EXCEPT ![r] = "done"]
            /\ UNCHANGED calls
    /\ UNCHANGED <<keyConfigured, req, dirs, files, handle, consumed, events>>

\* the awaited llm.ainvoke finishes: the service builds its payload and the
\* handler runs to its response
ModelResponds(r) ==
    /\ pc[r] = "invoking"
    /\ \E o \in ModelOutcomes :
         LET res == ServiceReturn(req[r].endpoint, o)
             path == FilePath(req[r])
             fin == ImageHandlerFinish(files, path, res)
         IN  /\ reply' = [reply EXCEPT ![r] = o]
             /\ result' = [result EXCEPT ![r] = res]
             /\ IF req[r].endpoint = TextEndpoint
                THEN /\ resp' = [resp EXCEPT ![r] = TextHandlerFinish(res)]
                     /\ UNCHANGED <<files, handle, events>>
                ELSE /\ resp' = [resp EXCEPT ![r] = fin.resp]
                     /\ files' = fin.files
                     /\ handle' = Unlinked(handle, fin.files)
                     /\ events' = [events EXCEPT ![r] =
                                     @ \o TailEvents(files, fin.files, path, res)]
    /\ pc' = [pc EXCEPT ![r] = "done"]
    /\ UNCHANGED <<keyConfigured, req, dirs, consumed, calls>>

Next ==
    \E r \in Requests :
        \/ GetLlmService(r)
        \/ GetTextAdvisory(r)
        \/ OpenUpload(r)
        \/ WriteChunk(r)
        \/ UploadFails(r)
        \/ FinishUpload(r)
        \/ ModelResponds(r)

Spec == Init /\ [][Next]_vars

TypeOK ==
    /\ keyConfigured \in BOOLEAN
    /\ \A r \in Requests :
         /\ pc[r] \in {"new", "handler", "writing", "invoking", "done"}
         /\ consumed[r] \in 0..MaxUploadLen
         /\ Len(calls[r]) \in 0..NumRequests

IsImage(r) == req[r].endpoint \in ImageEndpoints
IsText(r) == req[r].endpoint = TextEndpoint
Member(e, seq) == \E i \in DOMAIN seq : seq[i] = e

\* ---------------------------------------------------------------- C1
\* C1: a service call that has finished has returned, not raised, and its
\* payload has exactly one key: the success key of the method holding the
\* model's text (as response.content.strip() gives it) when the model
\* answered with text, and "error" holding the exception's message in every
\* other case (image missing, read failure, model failure, malformed answer).
C1_ServiceReturnsOneKey ==
    \A r \in Requests :
        result[r].state # "none" =>
            /\ result[r].state = "returned"
            /\ Cardinality(DOMAIN result[r].payload) = 1
            /\ IF reply[r].kind = "text"
               THEN result[r].payload
                      = (SuccessKey(req[r].endpoint) :> Strip(reply[r].value))
               ELSE /\ DOMAIN result[r].payload = {"error"}
                    /\ reply[r].kind = "raise"
                         => result[r].payload["error"] = reply[r].value
                    /\ reply[r].kind = "malformed"
                         => result[r].payload["error"] = StripAttributeError
                    /\ reply[r].kind = "none"
                         => result[r].payload["error"]
                              \in IOErrors
                                    \cup {ImageNotFoundMessage(FilePath(req[r]))}

\* a malformed answer of the model came back as an error payload, and another
\* request's image was missing when its service call looked for it
C1_Witness ==
    \E r, s \in Requests :
        /\ reply[r].kind = "malformed"
        /\ result[r].state = "returned"
        /\ "error" \in DOMAIN result[r].payload
        /\ result[s].state = "returned"
        /\ reply[s].kind = "none"
        /\ result[s].payload["error"] = ImageNotFoundMessage(FilePath(req[s]))

\* ---------------------------------------------------------------- C2
\* C2: when an image request that has opened its scratch file completes, the
\* file is not there, whatever the outcome; and a scratch file that exists
\* belongs to a request that is still in flight.
C2_TempFileGone ==
    [][ /\ \A r \in Requests :
             (pc[r] \in {"writing", "invoking"} /\ IsImage(r) /\ pc'[r] = "done")
                => ~Exists(files', FilePath(req[r]))
        /\ \A path \in DOMAIN files' :
             \E r \in Requests :
                /\ pc'[r] \in {"writing", "invoking"}
                /\ FilePath(req'[r]) = path ]_vars

\* one request failed while writing its upload, another got an error payload
\* from the model; both are done and no scratch file is left
C2_Witness ==
    \E r, s \in Requests :
        /\ pc[r] = "done" /\ IsImage(r)
        /\ resp[r].detail \in {FailedToProcess \o e : e \in IOErrors}
        /\ Member("deleted", events[r])
        /\ pc[s] = "done" /\ IsImage(s)
        /\ reply[s].kind = "raise"
        /\ Member("deleted", events[s])
        /\ DOMAIN files = {}

\* ---------------------------------------------------------------- C3
StepRank(e) ==
    CASE e = "written" -> 1
      [] e = "encoded" -> 2
      [] e = "prompt" -> 3
      [] e = "invoked" -> 4
      [] e = "returned" -> 5
      [] e = "deleted" -> 6

\* C3: the steps of an image request come in the order written, encoded,
\* prompt built, model invoked, service returned, file deleted; the model is
\* invoked only once the whole upload is written out and the file closed, and
\* a request that invoked the model deletes the file only after that call
\* has finished and the service has returned.
C3_StepOrder ==
    \A r \in Requests :
        IsImage(r) =>
            /\ \A i, j \in DOMAIN events[r] :
                 i < j => StepRank(events[r][i]) < StepRank(events[r][j])
            /\ Member("invoked", events[r]) <=> calls[r] # << >>
            /\ calls[r] # << >> =>
                 /\ consumed[r] = Len(req[r].upload)
                 /\ ~handle[r].open
                 /\ handle[r].buf = << >>
                 /\ SubSeq(events[r], 1, 4)
                      = <<"written", "encoded", "prompt", "invoked">>
            /\ pc[r] = "invoking" => ~Member("deleted", events[r])
            /\ (Member("deleted", events[r]) /\ calls[r] # << >>) =>
                 /\ reply[r].kind # "none"
                 /\ Member("returned", events[r])

\* an image request went through all six steps
C3_Witness ==
    \E r \in Requests :
        /\ IsImage(r)
        /\ Len(req[r].upload) = MaxUploadLen
        /\ events[r] = <<"written", "encoded", "prompt", "invoked",
                         "returned", "deleted">>

\* ---------------------------------------------------------------- C4
\* C4: whenever the service returned an error payload, the response is 500
\* with the service's error string as its detail, unchanged.
C4_ErrorDetailUnchanged ==
    \A r \in Requests :
        ( /\ pc[r] = "done"
          /\ result[r].state = "returned"
          /\ "error" \in DOMAIN result[r].payload )
            => /\ resp[r].status = 500
               /\ resp[r].detail = result[r].payload["error"]

\* ---------------------------------------------------------------- C5
\* C5: no request passes more than one message to the model, and when the
\* model call of a request finishes, successfully or not, the request
\* completes with a response without calling the model again.
C5_SingleInvocation ==
    [][ \A r \in Requests :
          /\ Len(calls'[r]) <= 1
          /\ (pc[r] = "invoking" /\ pc'[r] # "invoking") =>
                /\ pc'[r] = "done"
                /\ calls'[r] = calls[r]
                /\ resp'[r].status \in {200, 500}
          /\ (pc[r] = "invoking" /\ pc'[r] = "invoking") =>
                /\ calls'[r] = calls[r]
                /\ reply'[r] = reply[r] ]_vars

\* a request whose model call failed is done after its single call
C5_Witness ==
    \E r \in Requests :
        /\ pc[r] = "done"
        /\ reply[r].kind = "raise"
        /\ Len(calls[r]) = 1
        /\ resp[r].status = 500

\* ---------------------------------------------------------------- C6
\* C6: without a configured key every request ends with 500 "Gemini API key
\* is not configured." before its handler runs: no scratch directory or file
\* is created and the model is never invoked.
C6_NoKeyNoWork ==
    ~keyConfigured =>
        /\ dirs = {}
        /\ DOMAIN files = {}
        /\ \A r \in Requests :
             /\ pc[r] \in {"new", "done"}
             /\ calls[r] = << >>
             /\ pc[r] = "done" => resp[r] = Response(500, KeyNotConfigured, << >>)

\* without a key, a text request and an image request have both been answered
C6_Witness ==
    /\ ~keyConfigured
    /\ \E r, s \in Requests :
         /\ pc[r] = "done" /\ IsText(r)
         /\ pc[s] = "done" /\ IsImage(s)

\* ---------------------------------------------------------------- C7
\* C7 as stated: a finished /text-advisory request with an empty query was
\* answered 400 "Query string cannot be empty." without a model call, and one
\* with a non-empty query called the model exactly once.
C7_TextAdvisoryAlways ==
    \A r \in Requests :
        (IsText(r) /\ pc[r] = "done") =>
            IF req[r].user_query = << >>
            THEN /\ resp[r] = Response(400, EmptyQuery, << >>)
                 /\ calls[r] = << >>
            ELSE Len(calls[r]) = 1

\* C7 amended: with the API key configured, a /text-advisory request whose
\* handler has run was answered 400 "Query string cannot be empty." without a
\* model call if its query is empty, and has called the model exactly once
\* otherwise; no step of a /text-advisory request changes the scratch
\* directories or their files.
C7_TextAdvisoryWithKey ==
    [][ \A r \in Requests :
          (keyConfigured /\ req'[r].endpoint = TextEndpoint) =>
              /\ pc'[r] # pc[r] => (files' = files /\ dirs' = dirs)
              /\ (pc'[r] \in {"invoking", "done"}
                    /\ req'[r].user_query = << >>) =>
                    /\ resp'[r] = Response(400, EmptyQuery, << >>)
                    /\ calls'[r] = << >>
              /\ (pc'[r] \in {"invoking", "done"}
                    /\ req'[r].user_query # << >>) =>
                    Len(calls'[r]) = 1 ]_vars

\* with the key configured, one text request was rejected for its empty query
\* and another was answered after one model call
C7_Witness ==
    /\ keyConfigured
    /\ \E r, s \in Requests :
         /\ IsText(r) /\ pc[r] = "done"
         /\ req[r].user_query = << >>
         /\ resp[r].status = 400
         /\ IsText(s) /\ pc[s] = "done"
         /\ req[s].user_query # << >>
         /\ resp[s].status = 200
         /\ Len(calls[s]) = 1

\* ---------------------------------------------------------------- C8
\* C8: the image an image request passes to the model is the base64 data URL
\* of exactly the bytes uploaded in that request.
C8_UploadIsolation ==
    \A r \in Requests :
        (IsImage(r) /\ calls[r] # << >>) =>
            calls[r][1].image = ImageUrl(req[r].upload)

====
